---- MODULE Spec2Model ----
(***************************************************************************)
(* A model of the code-graph engine of graph-code-viewer:                  *)
(*   scraper.py   RepositoryScraper (process_file, extract_relationships,  *)
(*                scan_repository)                                         *)
(*   metadata.py  FunctionMetadata, ClassMetadata, MetadataExtractor       *)
(*   main.py      load_cache, save_cache                                   *)
(*   filters.py   GraphFilter                                              *)
(* Python dicts are functions, Python sets are sets, Python lists are      *)
(* sequences, str is STRING and f"{a}:{b}" is string concatenation.        *)
(***************************************************************************)
EXTENDS Integers, Sequences, FiniteSets, TLC

VARIABLES
    functions,       \* extract_relationships: parameter functions
    classes,         \* extract_relationships: parameter classes
    class_name_map,  \* extract_relationships: local class_name_map
    relationships,   \* extract_relationships: local relationships (the graph)
    pc,              \* position of the running operation
    exc,             \* exception propagating out of the operation, or "none"
    file_info,       \* scan result: path -> FileRecord
    cache_file,      \* the snapshot file .code_graph_cache.json on disk
    loaded,          \* what load_cache returned to its caller
    log,             \* the messages printed so far
    files,           \* scan_repository: the candidate files, in list order
    disk,            \* what each candidate file is on disk
    results,         \* scan_repository: the results Parallel has collected
    extractor,       \* the MetadataExtractor instance each worker holds
    nodes,           \* the node table handed to a filter
    filtered,        \* the node table the last filter call returned
    call,            \* the last filter call and its arguments
    args,            \* main: the parsed command line
    scanned,         \* main: whether scan_repository has been invoked
    save_outcome     \* main: how the write of save_cache went, once attempted

vars == <<functions, classes, class_name_map, relationships, pc, exc,
          file_info, cache_file, loaded, log, files, disk, results, extractor,
          nodes, filtered, call, args, scanned, save_outcome>>

resolverVars == <<functions, classes, class_name_map, relationships>>
codecVars == <<file_info, cache_file, loaded, log>>
scanVars == <<files, disk, results, extractor>>
filterVars == <<nodes, filtered, call>>
mainVars == <<args, scanned, save_outcome>>

\* The value of a variable the running specification does not use.
Unused == "unused"

----------------------------------------------------------------------------
(* Bounds and the universe of inputs                                       *)

\* Total number of declarations (functions + classes + methods) of an input.
MaxDecls == 3

Files == {"pkg/a.py", "pkg/b.py", "lib/c.py"}

\* The last position of character ch in string s, 0 when there is none
\* (str.rfind, counted from 1).
LastIndexOf(s, ch) ==
    LET hits == { i \in 1..Len(s) : SubSeq(s, i, i) = ch }
    IN  IF hits = {} THEN 0 ELSE CHOOSE i \in hits : \A j \in hits : j <= i

\* os.path.dirname: the part before the last slash.
Dirname(path) ==
    LET i == LastIndexOf(path, "/")
    IN  IF i <= 1 THEN SubSeq(path, 1, i) ELSE SubSeq(path, 1, i - 1)

\* os.path.splitext(path)[1]: from the last dot of the base name on, when
\* that dot is not the first character of the base name.
Splitext(path) ==
    LET slash == LastIndexOf(path, "/")
        dot == LastIndexOf(path, ".")
    IN  IF dot > slash + 1 THEN SubSeq(path, dot, Len(path)) ELSE ""

\* An empty dict.
EmptyDict == [k \in {} |-> {}]

\* d[k] = v on a dict.
DictSet(d, k, v) == [x \in (DOMAIN d) \cup {k} |-> IF x = k THEN v ELSE d[x]]

SeqsUpTo(S, n) == UNION {[1..k -> S] : k \in 0..n}

\* dataclass FunctionMetadata, as extract_function_metadata fills it for a
\* definition `name` found in file `path` with the parameters, calls and
\* capitalised names of `body`.
FunctionMetadata(name, path, body) ==
    [name |-> name,
     folder_path |-> Dirname(path),
     file_path |-> path,
     script_type |-> Splitext(path),
     docstring |-> "",
     parameters |-> body.params,
     returns |-> "Any",
     line_number |-> body.line,
     called_functions |-> body.calls,
     used_classes |-> body.uses]

\* dataclass ClassMetadata, as extract_class_metadata fills it.
ClassMetadata(name, path, methods) ==
    [name |-> name,
     folder_path |-> Dirname(path),
     file_path |-> path,
     script_type |-> Splitext(path),
     docstring |-> "",
     methods |-> methods]

\* Definitions of the model: one without parameters and with an empty body,
\* and one with a parameter x that calls f(), x.m() and Foo()
\* (extract_function_calls collects f, m, Foo; extract_class_usages collects
\* the capitalised Foo).
Bodies == { [params |-> <<>>, line |-> 1, calls |-> <<>>, uses |-> <<>>],
            [params |-> << [name |-> "x", type |-> "Any"] >>, line |-> 2,
             calls |-> <<"f", "m", "Foo">>, uses |-> <<"Foo">>] }

\* The standalone functions of the model declared in the files `paths`.
FuncUniverse(paths) ==
    { FunctionMetadata(n, p, b) : n \in {"f", "Foo"}, p \in paths, b \in Bodies }

MethodUniverse(path) ==
    { FunctionMetadata(n, path, b) : n \in {"m", "Foo"}, b \in Bodies }

\* Classes named Foo with at most n methods, each method in the class's file.
ClassUniverse(paths, n) ==
    UNION { { ClassMetadata("Foo", p, ms) : ms \in SeqsUpTo(MethodUniverse(p), n) } : p \in paths }

ClassSize(c) == 1 + Len(c.methods)

RECURSIVE ClassesSize(_)
ClassesSize(cs) == IF cs = <<>> THEN 0 ELSE ClassSize(Head(cs)) + ClassesSize(Tail(cs))

\* Lists of classes of total size at most b.
RECURSIVE ClassSeqs(_, _)
ClassSeqs(paths, b) ==
    {<<>>} \cup
    (IF b = 0 THEN {}
     ELSE UNION { { <<c>> \o r : r \in ClassSeqs(paths, b - ClassSize(c)) } :
                  c \in ClassUniverse(paths, b - 1) })

----------------------------------------------------------------------------
(* RepositoryScraper.extract_relationships                                 *)

\* f"{d.file_path}:{d.name}"
NodeId(d) == d.file_path \o ":" \o d.name

\* The record a class node starts with (scraper.py:70).
ClassRecord ==
    [contains |-> {}, calls |-> {}, called_by |-> {}, uses |-> {}, used_by |-> {}]

\* The record a method or function node starts with (scraper.py:75, 81).
FunctionRecord ==
    [calls |-> {}, called_by |-> {}, uses |-> {}, used_by |-> {}]

\* BuildClassNameMap keeping only the latest class of each name.
RECURSIVE BuildClassNameMapLatest(_, _, _)
BuildClassNameMapLatest(map, cs, i) ==
    IF i > Len(cs) THEN map
    ELSE BuildClassNameMapLatest(DictSet(map, cs[i].name, << NodeId(cs[i]) >>), cs, i + 1)

\* scraper.py:59-65: class name -> list of the ids of the classes so named.
RECURSIVE BuildClassNameMap(_, _, _)
BuildClassNameMap(map, cs, i) ==
    IF i > Len(cs) THEN map
    ELSE LET cls == cs[i]
             cls_id == NodeId(cls)
             m1 == IF cls.name \notin DOMAIN map THEN DictSet(map, cls.name, <<>>) ELSE map
             m2 == DictSet(m1, cls.name, Append(m1[cls.name], cls_id))
         IN  BuildClassNameMap(m2, cs, i + 1)

\* scraper.py:72-75: the methods of one class. st is [rel, exc]; the lookup
\* relationships[cls_id]['contains'] raises KeyError when the record under
\* cls_id has no 'contains' entry.
RECURSIVE MethodsLoop(_, _, _, _)
MethodsLoop(st, cls_id, methods, j) ==
    IF j > Len(methods) \/ st.exc # "none" THEN st
    ELSE LET method_id == NodeId(methods[j]) IN
         IF "contains" \notin DOMAIN st.rel[cls_id]
         THEN [st EXCEPT !.exc = "KeyError"]
         ELSE LET r1 == [st.rel EXCEPT ![cls_id].contains = @ \cup {method_id}]
                  r2 == DictSet(r1, method_id, FunctionRecord)
              IN  MethodsLoop([st EXCEPT !.rel = r2], cls_id, methods, j + 1)

\* scraper.py:67-75: one node per class and per method, contains edges.
RECURSIVE ClassesLoop(_, _, _)
ClassesLoop(st, cs, i) ==
    IF i > Len(cs) \/ st.exc # "none" THEN st
    ELSE LET cls_id == NodeId(cs[i])
             r0 == DictSet(st.rel, cls_id, ClassRecord)
         IN  ClassesLoop(MethodsLoop([st EXCEPT !.rel = r0], cls_id, cs[i].methods, 1), cs, i + 1)

\* scraper.py:77-81: one node per standalone function not yet a node.
RECURSIVE FunctionsLoop(_, _, _)
FunctionsLoop(rel, fs, i) ==
    IF i > Len(fs) THEN rel
    ELSE LET func_id == NodeId(fs[i]) IN
         FunctionsLoop(IF func_id \notin DOMAIN rel THEN DictSet(rel, func_id, FunctionRecord) ELSE rel,
                       fs, i + 1)

\* AddCall without the mirrored called_by entry.
AddCallUnmirrored(rel, a, b) == [rel EXCEPT ![a].calls = @ \cup {b}]

\* relationships[a]['calls'].add(b); relationships[b]['called_by'].add(a)
\* (scraper.py:91-92, 116-117).
AddCall(rel, a, b) ==
    LET r1 == [rel EXCEPT ![a].calls = @ \cup {b}]
    IN  [r1 EXCEPT ![b].called_by = @ \cup {a}]

\* relationships[a]['uses'].add(b); relationships[b]['used_by'].add(a)
\* (scraper.py:99-100, 104-105, 124-125, 129-130).
AddUse(rel, a, b) ==
    LET r1 == [rel EXCEPT ![a].uses = @ \cup {b}]
    IN  [r1 EXCEPT ![b].used_by = @ \cup {a}]

\* HandleCalls resolving a called name in every file, not only the caller's.
RECURSIVE HandleCallsAnyFile(_, _, _)
HandleCallsAnyFile(rel, d, i) ==
    IF i > Len(d.called_functions) THEN rel
    ELSE LET targets == { p \o ":" \o d.called_functions[i] : p \in Files } \cap DOMAIN rel
             RECURSIVE AddAll(_, _)
             AddAll(r, ts) == IF ts = {} THEN r
                              ELSE LET t == CHOOSE t \in ts : TRUE
                                   IN  AddAll(AddCall(r, NodeId(d), t), ts \ {t})
         IN  HandleCallsAnyFile(AddAll(rel, targets), d, i + 1)

\* HandleCalls adding the calls edge without testing that the called name
\* is a node.
RECURSIVE HandleCallsUnchecked(_, _, _)
HandleCallsUnchecked(rel, d, i) ==
    IF i > Len(d.called_functions) THEN rel
    ELSE LET same_file_call == d.file_path \o ":" \o d.called_functions[i] IN
         HandleCallsUnchecked(IF same_file_call \in DOMAIN rel
                              THEN AddCall(rel, NodeId(d), same_file_call)
                              ELSE AddCallUnmirrored(rel, NodeId(d), same_file_call),
                              d, i + 1)

\* scraper.py:88-92 and 113-117: the calls of one declaration, same file only.
RECURSIVE HandleCalls(_, _, _)
HandleCalls(rel, d, i) ==
    IF i > Len(d.called_functions) THEN rel
    ELSE LET same_file_call == d.file_path \o ":" \o d.called_functions[i] IN
         HandleCalls(IF same_file_call \in DOMAIN rel
                     THEN AddCall(rel, NodeId(d), same_file_call)
                     ELSE rel,
                     d, i + 1)

\* FanOut stopping at the first class of the list.
FanOutFirstOnly(rel, id, ids, k) ==
    IF k > Len(ids) THEN rel ELSE AddUse(rel, id, ids[k])

\* scraper.py:103-105 and 128-130: a uses edge to every class of the list.
RECURSIVE FanOut(_, _, _, _)
FanOut(rel, id, ids, k) ==
    IF k > Len(ids) THEN rel
    ELSE FanOut(AddUse(rel, id, ids[k]), id, ids, k + 1)

\* The class usages of one declaration, consulting the class-name map also
\* when the used name is a node of the declaration's own file.
RECURSIVE HandleUsagesAllFiles(_, _, _, _)
HandleUsagesAllFiles(rel, map, d, i) ==
    IF i > Len(d.used_classes) THEN rel
    ELSE LET used_class == d.used_classes[i]
             same_file_class == d.file_path \o ":" \o used_class
             r1 == IF same_file_class \in DOMAIN rel
                   THEN AddUse(rel, NodeId(d), same_file_class)
                   ELSE rel
             r2 == IF used_class \in DOMAIN map
                   THEN FanOut(r1, NodeId(d), map[used_class], 1)
                   ELSE r1
         IN  HandleUsagesAllFiles(r2, map, d, i + 1)

\* scraper.py:95-105 and 120-130: the class usages of one declaration.
RECURSIVE HandleUsages(_, _, _, _)
HandleUsages(rel, map, d, i) ==
    IF i > Len(d.used_classes) THEN rel
    ELSE LET used_class == d.used_classes[i]
             same_file_class == d.file_path \o ":" \o used_class
             r1 == IF same_file_class \in DOMAIN rel
                   THEN AddUse(rel, NodeId(d), same_file_class)
                   ELSE IF used_class \in DOMAIN map
                        THEN FanOut(rel, NodeId(d), map[used_class], 1)
                        ELSE rel
         IN  HandleUsages(r1, map, d, i + 1)

\* The body of the loops at scraper.py:84-105 and 109-130 for one declaration.
HandleDeclaration(rel, map, d) == HandleUsages(HandleCalls(rel, d, 1), map, d, 1)

\* scraper.py:83-105: the edges of the standalone functions. Also the inner
\* loop of scraper.py:109-130 over the methods of one class.
RECURSIVE DeclarationsLoop(_, _, _, _)
DeclarationsLoop(rel, map, ds, i) ==
    IF i > Len(ds) THEN rel
    ELSE DeclarationsLoop(HandleDeclaration(rel, map, ds[i]), map, ds, i + 1)

\* scraper.py:107-130: the edges of the methods of every class.
RECURSIVE ClassMethodsLoop(_, _, _, _)
ClassMethodsLoop(rel, map, cs, i) ==
    IF i > Len(cs) THEN rel
    ELSE ClassMethodsLoop(DeclarationsLoop(rel, map, cs[i].methods, 1), map, cs, i + 1)

----------------------------------------------------------------------------
(* extract_relationships as a process: one action per block of the method. *)

\* The functions fs with the first one recording a folder that is not the
\* directory of its file.
Misplaced(fs) == [fs EXCEPT ![1].folder_path = "elsewhere"]

Init ==
    /\ \E cs \in ClassSeqs(Files, MaxDecls) :
          \E fs \in SeqsUpTo(FuncUniverse(Files), MaxDecls - ClassesSize(cs)) :
             /\ functions \in {fs} \cup (IF fs = <<>> THEN {} ELSE {Misplaced(fs)})
             /\ classes = cs
    /\ class_name_map = EmptyDict
    /\ relationships = EmptyDict
    /\ pc = "class_name_map"
    /\ exc = "none"
    /\ file_info = Unused
    /\ cache_file = Unused
    /\ loaded = Unused
    /\ log = Unused
    /\ files = Unused
    /\ disk = Unused
    /\ results = Unused
    /\ extractor = Unused
    /\ nodes = Unused
    /\ filtered = Unused
    /\ call = Unused
    /\ args = Unused
    /\ scanned = Unused
    /\ save_outcome = Unused

\* scraper.py:57-65
MapClassNames ==
    /\ pc = "class_name_map"
    /\ class_name_map' = BuildClassNameMap(EmptyDict, classes, 1)
    /\ pc' = "classes"
    /\ UNCHANGED <<functions, classes, relationships, exc>>
    /\ UNCHANGED <<codecVars, scanVars, filterVars, mainVars>>

\* scraper.py:67-75
ProcessClasses ==
    /\ pc = "classes"
    /\ LET st == ClassesLoop([rel |-> relationships, exc |-> "none"], classes, 1) IN
         IF st.exc = "none"
         THEN /\ relationships' = st.rel
              /\ pc' = "functions"
              /\ exc' = exc
         ELSE /\ relationships' = relationships
              /\ pc' = "raised"
              /\ exc' = st.exc
    /\ UNCHANGED <<functions, classes, class_name_map>>
    /\ UNCHANGED <<codecVars, scanVars, filterVars, mainVars>>

\* scraper.py:77-81
InitFunctions ==
    /\ pc = "functions"
    /\ relationships' = FunctionsLoop(relationships, functions, 1)
    /\ pc' = "function_edges"
    /\ UNCHANGED <<functions, classes, class_name_map, exc>>
    /\ UNCHANGED <<codecVars, scanVars, filterVars, mainVars>>

\* scraper.py:83-105
ProcessFunctions ==
    /\ pc = "function_edges"
    /\ relationships' = DeclarationsLoop(relationships, class_name_map, functions, 1)
    /\ pc' = "method_edges"
    /\ UNCHANGED <<functions, classes, class_name_map, exc>>
    /\ UNCHANGED <<codecVars, scanVars, filterVars, mainVars>>

\* scraper.py:107-132
ProcessMethods ==
    /\ pc = "method_edges"
    /\ relationships' = ClassMethodsLoop(relationships, class_name_map, classes, 1)
    /\ pc' = "returned"
    /\ UNCHANGED <<functions, classes, class_name_map, exc>>
    /\ UNCHANGED <<codecVars, scanVars, filterVars, mainVars>>

Next ==
    \/ MapClassNames
    \/ ProcessClasses
    \/ InitFunctions
    \/ ProcessFunctions
    \/ ProcessMethods

Spec == Init /\ [][Next]_vars

----------------------------------------------------------------------------
(* Properties of extract_relationships                                     *)

Range(seq) == { seq[i] : i \in 1..Len(seq) }

\* The methods of all classes of the input.
AllMethods == UNION { Range(c.methods) : c \in Range(classes) }

\* Every declaration the edge passes visit: standalone functions and methods.
AllDeclarations == Range(functions) \cup AllMethods

\* The files of the input declarations and classes that own node key k.
OwningFiles(k) ==
    { x.file_path : x \in { y \in AllDeclarations \cup Range(classes) : NodeId(y) = k } }

Returned == pc = "returned"

\* C1: after extract_relationships returns, B is in graph[A].calls iff A is
\* in graph[B].called_by, and B is in graph[A].uses iff A is in
\* graph[B].used_by, for all node keys A and B, also when declarations
\* share a node key.
C1_Mirror ==
    Returned =>
        \A A \in DOMAIN relationships : \A B \in DOMAIN relationships :
            /\ (B \in relationships[A].calls <=> A \in relationships[B].called_by)
            /\ (B \in relationships[A].uses <=> A \in relationships[B].used_by)

\* Two declarations share a node key, and the returned graph has a calls
\* edge and a uses edge.
C1_Witness ==
    /\ Returned
    /\ \E i \in 1..Len(functions) : \E c \in Range(classes) :
          NodeId(functions[i]) = NodeId(c)
    /\ \E A \in DOMAIN relationships : relationships[A].calls # {}
    /\ \E A \in DOMAIN relationships : relationships[A].uses # {}

\* C2: after extract_relationships returns, for every declaration D and
\* called name n the calls edge D -> "D.file_path:n" is in the graph iff
\* that node exists; the calls set of a node holds nothing else; and the
\* two ends of every calls edge are owned by the same file.
C2_SameFileCalls ==
    Returned =>
        /\ \A d \in AllDeclarations : \A n \in Range(d.called_functions) :
              LET target == d.file_path \o ":" \o n IN
              (target \in relationships[NodeId(d)].calls) <=> (target \in DOMAIN relationships)
        /\ \A A \in DOMAIN relationships :
              relationships[A].calls \subseteq
                 { d.file_path \o ":" \o n : d \in { x \in AllDeclarations : NodeId(x) = A },
                                             n \in { "f", "m", "Foo" } }
        /\ \A A \in DOMAIN relationships : \A B \in relationships[A].calls :
              \A fa \in OwningFiles(A) : \A fb \in OwningFiles(B) : fa = fb

\* A declaration calls a name that is a node only in another file, and the
\* returned graph has a calls edge.
C2_Witness ==
    /\ Returned
    /\ \E d \in AllDeclarations : \E n \in Range(d.called_functions) :
          /\ (d.file_path \o ":" \o n) \notin DOMAIN relationships
          /\ \E p \in Files \ {d.file_path} : (p \o ":" \o n) \in DOMAIN relationships
    /\ \E A \in DOMAIN relationships : relationships[A].calls # {}

\* The classes of the input named n, as node keys.
ClassesNamed(n) == { NodeId(c) : c \in { x \in Range(classes) : x.name = n } }

\* C3: after extract_relationships returns, for every declaration D and
\* used name n with no node "D.file_path:n", the graph has the uses edge
\* from D to every class named n in any file, with the mirrored used_by
\* entry; and a node has no uses edge that is neither a same-file node of
\* a used name nor a class of that name, so a name no class bears adds no
\* edge.
C3_FanOut ==
    Returned =>
        /\ \A d \in AllDeclarations : \A n \in Range(d.used_classes) :
              (d.file_path \o ":" \o n) \notin DOMAIN relationships =>
                 \A c \in ClassesNamed(n) :
                    /\ c \in relationships[NodeId(d)].uses
                    /\ NodeId(d) \in relationships[c].used_by
        /\ \A A \in DOMAIN relationships : \A B \in relationships[A].uses :
              \E d \in AllDeclarations : \E n \in Range(d.used_classes) :
                 /\ NodeId(d) = A
                 /\ \/ B = d.file_path \o ":" \o n
                    \/ B \in ClassesNamed(n)

\* A declaration uses a name that is no node of its own file while two
\* classes of that name exist in two other files.
C3_Witness ==
    /\ Returned
    /\ \E d \in AllDeclarations : \E n \in Range(d.used_classes) :
          /\ (d.file_path \o ":" \o n) \notin DOMAIN relationships
          /\ Cardinality(ClassesNamed(n)) = 2
          /\ ClassesNamed(n) \subseteq relationships[NodeId(d)].uses

----------------------------------------------------------------------------
(* extract_relationships as one call                                       *)

\* The five relation sets of a record of the graph.
RelationSets == {"contains", "calls", "called_by", "uses", "used_by"}

\* C14: after extract_relationships returns, every node of the graph maps
\* to a record with the five relation sets contains, calls, called_by,
\* uses and used_by, and contains is non-empty only for class nodes.
C14_FiveRelationSets ==
    Returned =>
        \A k \in DOMAIN relationships :
            /\ DOMAIN relationships[k] = RelationSets
            /\ relationships[k].contains # {} => k \in { NodeId(c) : c \in Range(classes) }

\* Every declaration and class of the input records the directory of its
\* file as its folder.
Consistent ==
    \A d \in AllDeclarations \cup Range(classes) : d.folder_path = Dirname(d.file_path)

\* C17: on an input whose declarations each have a folder consistent with
\* their file, extract_relationships does not raise, also when node keys
\* collide within one file.
C17_NeverRaises == Consistent => pc # "raised"

\* C18: on an input with a declaration whose folder is not the directory
\* of its file, extract_relationships does not return a graph.
C18_InconsistentIsFatal == ~Consistent => ~Returned

\* C19: after extract_relationships returns, for every class C of the
\* input and every method m of C, the graph has a node for C and a node
\* for m, and the key of m is in the contains set of C's node.
C19_ContainmentComplete ==
    Returned =>
        \A c \in Range(classes) : \A m \in Range(c.methods) :
            /\ NodeId(c) \in DOMAIN relationships
            /\ NodeId(m) \in DOMAIN relationships
            /\ "contains" \in DOMAIN relationships[NodeId(c)]
            /\ NodeId(m) \in relationships[NodeId(c)].contains

\* C20: after extract_relationships returns, for every declaration D and
\* used name n for which the node "D.file_path:n" exists, the graph has
\* the uses edge from D to that node, mirrored, and no uses edge from D
\* to a class named n of another file.
C20_SameFileFirst ==
    Returned =>
        \A d \in AllDeclarations : \A n \in Range(d.used_classes) :
            LET same_file == d.file_path \o ":" \o n IN
            same_file \in DOMAIN relationships =>
                /\ same_file \in relationships[NodeId(d)].uses
                /\ NodeId(d) \in relationships[same_file].used_by
                /\ relationships[NodeId(d)].uses \cap ClassesNamed(n) \subseteq {same_file}

\* A declaration uses a name that is a node of its own file while a class
\* of that name exists in another file.
C20_Witness ==
    /\ Returned
    /\ \E d \in AllDeclarations : \E n \in Range(d.used_classes) :
          /\ (d.file_path \o ":" \o n) \in DOMAIN relationships
          /\ \E c \in ClassesNamed(n) : c # d.file_path \o ":" \o n
          /\ relationships[NodeId(d)].uses = {d.file_path \o ":" \o n}


\* The node keys of the input: of its classes, methods and functions.
InputKeys == { NodeId(x) : x \in AllDeclarations \cup Range(classes) }

\* C24: after extract_relationships returns, the keys of the graph are
\* exactly the keys of the input classes, methods and functions, and every
\* member of every relation set of every node is a key of the graph.
C24_ReferentialClosure ==
    Returned =>
        /\ DOMAIN relationships = InputKeys
        /\ \A k \in DOMAIN relationships : \A set \in DOMAIN relationships[k] :
              relationships[k][set] \subseteq DOMAIN relationships

\* The returned graph has a contains, a calls and a uses edge, and a
\* declaration calls a name that is no node of its file.
C24_Witness ==
    /\ Returned
    /\ \E k \in DOMAIN relationships :
          "contains" \in DOMAIN relationships[k] /\ relationships[k].contains # {}
    /\ \E k \in DOMAIN relationships : relationships[k].calls # {}
    /\ \E k \in DOMAIN relationships : relationships[k].uses # {}
    /\ \E d \in AllDeclarations : \E n \in Range(d.called_functions) :
          (d.file_path \o ":" \o n) \notin DOMAIN relationships


\* scraper.py:55-132: the graph returned, or the exception raised.
ExtractRelationships(fs, cs) ==
    LET map == BuildClassNameMap(EmptyDict, cs, 1)
        st == ClassesLoop([rel |-> EmptyDict, exc |-> "none"], cs, 1)
    IN  IF st.exc # "none" THEN [exc |-> st.exc]
        ELSE [exc |-> "none",
              val |-> ClassMethodsLoop(
                          DeclarationsLoop(FunctionsLoop(st.rel, fs, 1), map, fs, 1),
                          map, cs, 1)]

\* The entries of the list seq that come from the file p, in their order.
PerFile(seq, p) == SelectSeq(seq, LAMBDA d : d.file_path = p)

\* scraper.py:147-152: the per-file results of seq concatenated in the
\* order `order` of the files.
RECURSIVE MergeInOrder(_, _, _)
MergeInOrder(seq, order, i) ==
    IF i > Len(order) THEN <<>>
    ELSE PerFile(seq, order[i]) \o MergeInOrder(seq, order, i + 1)

\* The orders in which the results of the files can be merged.
FileOrders ==
    { o \in [1..Cardinality(Files) -> Files] :
        \A i \in DOMAIN o : \A j \in DOMAIN o : o[i] = o[j] => i = j }

\* C23: whatever the order in which the per-file results are concatenated
\* into the functions and classes lists, extract_relationships ends the
\* same way: it returns the same graph, or raises the same exception.
C23_MergeOrderIndependent ==
    pc \in {"returned", "raised"} =>
        \A o \in FileOrders :
            \A r \in {ExtractRelationships(MergeInOrder(functions, o, 1),
                                          MergeInOrder(classes, o, 1))} :
                /\ r.exc = exc
                /\ r.exc = "none" => r.val = relationships

\* The returned graph has a declaration using two classes of one name in
\* two files, and calls edges in a file with two declarations.
C23_Witness ==
    /\ Returned
    /\ \E k \in DOMAIN relationships : Cardinality(relationships[k].uses) >= 2
    /\ Cardinality({ c.file_path : c \in Range(classes) }) >= 2


\* The FileRecord process_file builds for a path (scraper.py:45-49).
FileRecord(path) == [path |-> path, type |-> Splitext(path), folder |-> Dirname(path)]

----------------------------------------------------------------------------
(* The snapshot codec: main.py save_cache and load_cache                   *)

\* Declarations of the in-memory result the codec specification saves, and
\* the files they are declared in.
MaxSnapshotDecls == 2

SnapshotFiles == {"pkg/a.py", "lib/c.py"}

\* JSON values, as the json module writes and reads them.
JStr(s) == [t |-> "str", v |-> s]
JInt(n) == [t |-> "int", v |-> n]
JList(seq) == [t |-> "list", v |-> seq]
JDict(f) == [t |-> "dict", v |-> f]

\* The characters of a string: iterating a Python str.
Chars(s) == [i \in 1..Len(s) |-> SubSeq(s, i, i)]

\* list(a_set): the elements in some order. The order Python gives is not
\* specified; save_cache may see either of two opposite orders.
RECURSIVE SetToSeq(_)
SetToSeq(S) ==
    IF S = {} THEN <<>>
    ELSE LET x == CHOOSE x \in S : TRUE IN <<x>> \o SetToSeq(S \ {x})

Reverse(seq) == [i \in 1..Len(seq) |-> seq[Len(seq) + 1 - i]]

ListOfSet(S, order) == IF order = "rev" THEN Reverse(SetToSeq(S)) ELSE SetToSeq(S)

\* json.dump of a list of str.
JStrList(seq) == JList([i \in 1..Len(seq) |-> JStr(seq[i])])

\* main.py:110-121 and 134-145 with json.dump: one FunctionMetadata.
FunctionToJson(f) ==
    JDict([name |-> JStr(f.name),
           folder_path |-> JStr(f.folder_path),
           file_path |-> JStr(f.file_path),
           script_type |-> JStr(f.script_type),
           docstring |-> JStr(f.docstring),
           parameters |-> JList([i \in 1..Len(f.parameters) |->
                                   JDict([name |-> JStr(f.parameters[i].name),
                                          type |-> JStr(f.parameters[i].type)])]),
           returns |-> JStr(f.returns),
           line_number |-> JInt(f.line_number),
           called_functions |-> JStrList(f.called_functions),
           used_classes |-> JStrList(f.used_classes)])

\* main.py:127-148 with json.dump: one ClassMetadata.
ClassToJson(c) ==
    JDict([name |-> JStr(c.name),
           folder_path |-> JStr(c.folder_path),
           file_path |-> JStr(c.file_path),
           script_type |-> JStr(c.script_type),
           docstring |-> JStr(c.docstring),
           methods |-> JList([i \in 1..Len(c.methods) |-> FunctionToJson(c.methods[i])])])

\* RelationshipsToJson writing only the four relations every node has.
RelationshipsToJsonFourOnly(rel, order) ==
    JDict([func_id \in DOMAIN rel |->
             JDict([rel_type \in {"calls", "called_by", "uses", "used_by"} |->
                      JStrList(ListOfSet(rel[func_id][rel_type], order))])])

\* main.py:152-157 with json.dump: every relation set becomes a list.
RelationshipsToJson(rel, order) ==
    JDict([func_id \in DOMAIN rel |->
             JDict([rel_type \in DOMAIN rel[func_id] |->
                      JStrList(ListOfSet(rel[func_id][rel_type], order))])])

\* json.dump of file_info.
FileInfoToJson(info) ==
    JDict([p \in DOMAIN info |->
             JDict([path |-> JStr(info[p].path),
                    type |-> JStr(info[p].type),
                    folder |-> JStr(info[p].folder)])])

\* main.py:108-168: the document save_cache writes.
EncodeCache(fs, cs, info, rel, order) ==
    JDict([functions |-> JList([i \in 1..Len(fs) |-> FunctionToJson(fs[i])]),
           classes |-> JList([i \in 1..Len(cs) |-> ClassToJson(cs[i])]),
           file_info |-> FileInfoToJson(info),
           relationships |-> RelationshipsToJson(rel, order)])

\* Python's None.
None == [py |-> "None"]

\* json.load: the Python value of a JSON value.
RECURSIVE FromJson(_)
FromJson(j) ==
    CASE j.t = "dict" -> [k \in DOMAIN j.v |-> FromJson(j.v[k])]
      [] j.t = "list" -> [i \in 1..Len(j.v) |-> FromJson(j.v[i])]
      [] j.t = "null" -> None
      [] OTHER -> j.v

\* An evaluation that went through, and one that raised.
Ok(v) == [exc |-> "none", val |-> v]
Raise(e) == [exc |-> e]

\* The first exception of a list of evaluations, or "none".
FirstExc(rs) ==
    LET bad == { i \in 1..Len(rs) : rs[i].exc # "none" }
    IN  IF bad = {} THEN "none"
        ELSE rs[CHOOSE i \in bad : \A k \in bad : i <= k].exc

\* x[key] with a str key: KeyError on a dict without the key, TypeError on
\* every other value json.load can give.
Subscript(x, key) ==
    IF x.t = "dict"
    THEN IF key \in DOMAIN x.v THEN Ok(x.v[key]) ELSE Raise("KeyError")
    ELSE Raise("TypeError")

\* for e in x: the elements of a list, the keys of a dict, the characters of
\* a str; TypeError on a number or None.
Iterate(x) ==
    CASE x.t = "list" -> Ok(x.v)
      [] x.t = "dict" -> LET ks == SetToSeq(DOMAIN x.v)
                         IN  Ok([i \in 1..Len(ks) |-> JStr(ks[i])])
      [] x.t = "str" -> LET cs == Chars(x.v) IN Ok([i \in 1..Len(cs) |-> JStr(cs[i])])
      [] OTHER -> Raise("TypeError")

FunctionFields ==
    <<"name", "folder_path", "file_path", "script_type", "docstring", "parameters",
      "returns", "line_number", "called_functions", "used_classes">>

\* main.py:50-61 and 74-85: FunctionMetadata(name=f['name'], ...).
DecodeFunction(f) ==
    LET gets == [i \in 1..Len(FunctionFields) |-> Subscript(f, FunctionFields[i])]
        e == FirstExc(gets)
    IN  IF e # "none" THEN Raise(e)
        ELSE Ok([k \in Range(FunctionFields) |-> FromJson(f.v[k])])

\* A list comprehension [Op(e) for e in x] whose elements are the
\* evaluations rs: the list, or the first exception.
Collect(rs) ==
    IF FirstExc(rs) # "none" THEN Raise(FirstExc(rs))
    ELSE Ok([i \in 1..Len(rs) |-> rs[i].val])

\* main.py:67-88: ClassMetadata(name=c['name'], ..., methods=[...]).
ClassFields == <<"name", "folder_path", "file_path", "script_type", "docstring">>

DecodeClass(c) ==
    LET gets == [i \in 1..Len(ClassFields) |-> Subscript(c, ClassFields[i])]
        e == FirstExc(gets)
        ms == Subscript(c, "methods")
        it == IF ms.exc = "none" THEN Iterate(ms.val) ELSE ms
        methods == IF it.exc = "none"
                   THEN Collect([i \in 1..Len(it.val) |-> DecodeFunction(it.val[i])])
                   ELSE it
    IN  IF e # "none" THEN Raise(e)
        ELSE IF methods.exc # "none" THEN methods
        ELSE Ok([k \in Range(ClassFields) \cup {"methods"} |->
                   IF k = "methods" THEN methods.val ELSE FromJson(c.v[k])])

\* set(rel_list): the elements of a list (TypeError when one is a list or a
\* dict, which do not hash), the keys of a dict, the characters of a str;
\* TypeError on a number or None.
DecodeSet(x) ==
    CASE x.t = "list" ->
            IF \E i \in 1..Len(x.v) : x.v[i].t \in {"list", "dict"}
            THEN Raise("TypeError")
            ELSE Ok({ FromJson(x.v[i]) : i \in 1..Len(x.v) })
      [] x.t = "dict" -> Ok(DOMAIN x.v)
      [] x.t = "str" -> Ok(Range(Chars(x.v)))
      [] OTHER -> Raise("TypeError")

\* main.py:95-97: {rel_type: set(rel_list) for ... in rel_dict.items()};
\* AttributeError when rel_dict is no dict.
DecodeRelDict(x) ==
    IF x.t # "dict" THEN Raise("AttributeError")
    ELSE LET sets == [k \in DOMAIN x.v |-> DecodeSet(x.v[k])]
             bad == { k \in DOMAIN x.v : sets[k].exc # "none" }
         IN  IF bad # {} THEN Raise(sets[CHOOSE k \in bad : TRUE].exc)
             ELSE Ok([k \in DOMAIN x.v |-> sets[k].val])

\* main.py:93-97: cache['relationships'].items() and the loop over it.
DecodeRelationships(x) ==
    IF x.t # "dict" THEN Raise("AttributeError")
    ELSE LET recs == [k \in DOMAIN x.v |-> DecodeRelDict(x.v[k])]
             bad == { k \in DOMAIN x.v : recs[k].exc # "none" }
         IN  IF bad # {} THEN Raise(recs[CHOOSE k \in bad : TRUE].exc)
             ELSE Ok([k \in DOMAIN x.v |-> recs[k].val])

\* main.py:48-99: the body of the try block after json.load gave `cache`.
DecodeCache(cache) ==
    LET fl == Subscript(cache, "functions")
        fi == IF fl.exc = "none" THEN Iterate(fl.val) ELSE fl
        fs == IF fi.exc = "none"
              THEN Collect([i \in 1..Len(fi.val) |-> DecodeFunction(fi.val[i])])
              ELSE fi
        cl == Subscript(cache, "classes")
        ci == IF cl.exc = "none" THEN Iterate(cl.val) ELSE cl
        cs == IF ci.exc = "none"
              THEN Collect([i \in 1..Len(ci.val) |-> DecodeClass(ci.val[i])])
              ELSE ci
        rl == Subscript(cache, "relationships")
        rs == IF rl.exc = "none" THEN DecodeRelationships(rl.val) ELSE rl
        info == Subscript(cache, "file_info")
    IN  IF fs.exc # "none" THEN fs
        ELSE IF cs.exc # "none" THEN cs
        ELSE IF rs.exc # "none" THEN rs
        ELSE IF info.exc # "none" THEN info
        ELSE Ok([functions |-> fs.val, classes |-> cs.val,
                 file_info |-> FromJson(info.val), relationships |-> rs.val])

\* The exceptions load_cache catches (main.py:100; json.JSONDecodeError,
\* KeyError, FileNotFoundError).
Caught == {"JSONDecodeError", "KeyError", "FileNotFoundError"}

\* (None, None, None, None), the return of main.py:102.
NoSnapshot == [ret |-> "none", functions |-> None, classes |-> None,
               file_info |-> None, relationships |-> None]

\* The tuple returned at main.py:99.
Snapshot(r) == [ret |-> "tuple", functions |-> r.functions, classes |-> r.classes,
                file_info |-> r.file_info, relationships |-> r.relationships]

\* An except clause that returns None instead of falling through to the
\* return of the four Nones.
ExceptHandlerReturnsNone(e) ==
    [exc |-> "none", val |-> None, out |-> <<"Cache loading failed">>]

\* main.py:100-102: the except clause prints and falls through to the
\* return of (None, None, None, None).
ExceptHandler(e) ==
    [exc |-> "none", val |-> NoSnapshot, out |-> <<"Cache loading failed">>]

\* main.py:40-102: load_cache on the file `file`. Gives the value returned
\* (when nothing propagates), the exception that propagates and the
\* messages printed.
LoadCacheOf(file) ==
    LET attempt ==
            CASE file.state = "text" -> Raise("JSONDecodeError")
              [] file.state = "json" -> DecodeCache(file.doc)
              [] OTHER -> Raise("none")
    IN  IF file.state \in {"absent", "empty"}
        THEN [exc |-> "none", val |-> NoSnapshot, out |-> <<>>]
        ELSE IF attempt.exc = "none"
        THEN [exc |-> "none", val |-> Snapshot(attempt.val), out |-> <<>>]
        ELSE IF attempt.exc \in Caught
        THEN ExceptHandler(attempt.exc)
        ELSE [exc |-> attempt.exc, out |-> <<>>]

\* save_cache without its try/except: a failed write raises OSError.
SaveCacheOfUncaught(file, fs, cs, info, rel, outcome, order) ==
    CASE outcome = "ok" ->
            [file |-> [state |-> "json", doc |-> EncodeCache(fs, cs, info, rel, order)],
             out |-> <<"Cache saved successfully">>, exc |-> "none"]
      [] outcome = "open_fails" -> [file |-> file, out |-> <<>>, exc |-> "OSError"]
      [] outcome = "write_fails_at_once" ->
            [file |-> [state |-> "empty"], out |-> <<>>, exc |-> "OSError"]
      [] OTHER -> [file |-> [state |-> "text"], out |-> <<>>, exc |-> "OSError"]

\* main.py:166-171: what save_cache leaves on disk and prints. The open for
\* writing truncates the file, so a failure after it leaves an empty or a
\* partly written file; a failure of the open itself leaves the file alone.
SaveCacheOf(file, fs, cs, info, rel, outcome, order) ==
    CASE outcome = "ok" ->
            [file |-> [state |-> "json", doc |-> EncodeCache(fs, cs, info, rel, order)],
             out |-> <<"Cache saved successfully">>, exc |-> "none"]
      [] outcome = "open_fails" ->
            [file |-> file, out |-> <<"Failed to save cache">>, exc |-> "none"]
      [] outcome = "write_fails_at_once" ->
            [file |-> [state |-> "empty"], out |-> <<"Failed to save cache">>, exc |-> "none"]
      [] OTHER ->
            [file |-> [state |-> "text"], out |-> <<"Failed to save cache">>, exc |-> "none"]

SaveOutcomes == {"ok", "open_fails", "write_fails_at_once", "write_fails_midway"}

\* The result of a scan that found the declarations fs and cs: the
\* declarations, their graph and the FileRecords of their files.
ScanResult(fs, cs) ==
    [functions |-> fs,
     classes |-> cs,
     file_info |-> [p \in { d.file_path : d \in Range(fs) \cup Range(cs) } |-> FileRecord(p)],
     relationships |-> ExtractRelationships(fs, cs).val]

WithField(doc, k, v) == JDict(DictSet(doc.v, k, v))
WithoutField(doc, k) == JDict([x \in (DOMAIN doc.v) \ {k} |-> doc.v[x]])

\* What the snapshot file may hold when the program starts: nothing, an
\* empty or cut-off file, the snapshot of an earlier run, or a document
\* that is not a snapshot.
PriorFiles(doc) ==
    << [state |-> "absent"],
       [state |-> "empty"],
       [state |-> "text"],
       [state |-> "json", doc |-> doc],
       [state |-> "json", doc |-> JList(<<>>)],
       [state |-> "json", doc |-> WithoutField(doc, "file_info")],
       [state |-> "json", doc |->
          WithField(doc, "functions", JList(<< JDict([file_path |-> JStr("pkg/a.py")]) >>))],
       [state |-> "json", doc |-> WithField(doc, "functions", JList(<< JStr("f") >>))],
       [state |-> "json", doc |-> WithField(doc, "relationships", JList(<<>>))],
       [state |-> "json", doc |->
          WithField(doc, "relationships", JDict([k \in {"pkg/a.py:f"} |-> JList(<<>>)]))] >>

InitCodec ==
    /\ \E cs \in ClassSeqs(SnapshotFiles, MaxSnapshotDecls) :
       \E fs \in SeqsUpTo(FuncUniverse(SnapshotFiles), MaxSnapshotDecls - ClassesSize(cs)) :
       LET r == ScanResult(fs, cs) IN
          /\ ExtractRelationships(fs, cs).exc = "none"
          /\ functions = r.functions
          /\ classes = r.classes
          /\ file_info = r.file_info
          /\ relationships = r.relationships
          /\ LET prior == PriorFiles(EncodeCache(r.functions, r.classes, r.file_info,
                                                 r.relationships, "fwd"))
             IN  \E i \in 1..Len(prior) : cache_file = prior[i]
    /\ class_name_map = Unused
    /\ loaded = [ret |-> "pending"]
    /\ log = <<>>
    /\ files = Unused
    /\ disk = Unused
    /\ results = Unused
    /\ extractor = Unused
    /\ nodes = Unused
    /\ filtered = Unused
    /\ call = Unused
    /\ args = Unused
    /\ scanned = Unused
    /\ save_outcome = Unused
    /\ pc = "start"
    /\ exc = "none"

\* main.py:104-171
SaveCache ==
    /\ pc = "start"
    /\ \E outcome \in SaveOutcomes : \E order \in {"fwd", "rev"} :
          LET r == SaveCacheOf(cache_file, functions, classes, file_info, relationships,
                               outcome, order)
          IN  /\ cache_file' = r.file
              /\ log' = log \o r.out
    /\ pc' = "saved"
    /\ UNCHANGED <<resolverVars, scanVars, filterVars, mainVars, file_info, loaded, exc>>

\* main.py:40-102
LoadCache ==
    /\ pc \in {"start", "saved"}
    /\ LET r == LoadCacheOf(cache_file) IN
         /\ log' = log \o r.out
         /\ IF r.exc = "none"
            THEN /\ loaded' = r.val
                 /\ pc' = "loaded"
                 /\ exc' = exc
            ELSE /\ loaded' = loaded
                 /\ pc' = "raised"
                 /\ exc' = r.exc
    /\ UNCHANGED <<resolverVars, scanVars, filterVars, mainVars, file_info, cache_file>>

NextCodec ==
    \/ SaveCache
    \/ LoadCache

SpecCodec == InitCodec /\ [][NextCodec]_vars

----------------------------------------------------------------------------
(* Properties of the snapshot codec                                        *)

\* save_cache reported success.
SavedOk == log # <<>> /\ log[1] = "Cache saved successfully"

LoadCacheEnded == pc \in {"loaded", "raised"}

\* C4: load_cache applied to the file a successful save_cache wrote returns
\* a result with the same declarations and classes (every field), the same
\* file_info, the same node keys and, for every node, the same relation
\* sets with the same members.
C4_RoundTrip ==
    (LoadCacheEnded /\ SavedOk) =>
        /\ pc = "loaded"
        /\ loaded.ret = "tuple"
        /\ loaded.functions = functions
        /\ loaded.classes = classes
        /\ loaded.file_info = file_info
        /\ DOMAIN loaded.relationships = DOMAIN relationships
        /\ \A k \in DOMAIN relationships :
              /\ DOMAIN loaded.relationships[k] = DOMAIN relationships[k]
              /\ \A rel_type \in DOMAIN relationships[k] :
                    loaded.relationships[k][rel_type] = relationships[k][rel_type]

\* A result with a class, a method with a parameter and a relation set of
\* two members was saved and loaded back.
C4_Witness ==
    /\ pc = "loaded"
    /\ SavedOk
    /\ \E i \in 1..Len(classes) : \E j \in 1..Len(classes[i].methods) :
          classes[i].methods[j].parameters # <<>>
    /\ \E k \in DOMAIN relationships : \E rel_type \in DOMAIN relationships[k] :
          Cardinality(relationships[k][rel_type]) >= 2

\* The structure of a snapshot document (the four fields, lists of records
\* with the declaration fields, relation lists per node).
IsFunctionDoc(f) ==
    /\ f.t = "dict"
    /\ Range(FunctionFields) \subseteq DOMAIN f.v
    /\ \A k \in {"parameters", "called_functions", "used_classes"} : f.v[k].t = "list"

IsClassDoc(c) ==
    /\ c.t = "dict"
    /\ Range(ClassFields) \cup {"methods"} \subseteq DOMAIN c.v
    /\ c.v["methods"].t = "list"
    /\ \A i \in 1..Len(c.v["methods"].v) : IsFunctionDoc(c.v["methods"].v[i])

IsSnapshotDoc(doc) ==
    /\ doc.t = "dict"
    /\ {"functions", "classes", "file_info", "relationships"} \subseteq DOMAIN doc.v
    /\ doc.v["functions"].t = "list"
    /\ \A i \in 1..Len(doc.v["functions"].v) : IsFunctionDoc(doc.v["functions"].v[i])
    /\ doc.v["classes"].t = "list"
    /\ \A i \in 1..Len(doc.v["classes"].v) : IsClassDoc(doc.v["classes"].v[i])
    /\ doc.v["file_info"].t = "dict"
    /\ doc.v["relationships"].t = "dict"
    /\ \A k \in DOMAIN doc.v["relationships"].v :
          /\ doc.v["relationships"].v[k].t = "dict"
          /\ \A r \in DOMAIN doc.v["relationships"].v[k].v :
                doc.v["relationships"].v[k].v[r].t = "list"

\* The file holds a cut-off or structurally invalid snapshot.
InvalidSnapshot(file) ==
    \/ file.state \in {"empty", "text"}
    \/ file.state = "json" /\ ~IsSnapshotDoc(file.doc)

\* C5: on a snapshot file that is cut off or structurally invalid,
\* load_cache raises nothing and returns the no-usable-snapshot result.
C5_NeverCrashes ==
    (LoadCacheEnded /\ InvalidSnapshot(cache_file)) =>
        /\ pc = "loaded"
        /\ exc = "none"
        /\ loaded = NoSnapshot

\* The file exists, is not empty, and load_cache cannot decode it.
Undecodable(file) ==
    \/ file.state = "text"
    \/ file.state = "json" /\ DecodeCache(file.doc).exc # "none"

\* What load_cache returns when no snapshot file exists.
AbsentResult == LoadCacheOf([state |-> "absent"]).val

\* C6 as claimed: the result load_cache returns for a file that exists but
\* cannot be decoded differs from the result it returns for no file.
C6_Distinct ==
    (pc = "loaded" /\ Undecodable(cache_file)) => loaded # AbsentResult

\* C6 as amended: whenever load_cache returns for a file that exists but
\* cannot be decoded, it returns the very result it returns for no file,
\* (None, None, None, None); the two cases differ only in the message
\* "Cache loading failed", printed for a non-empty undecodable file and
\* never printed for an absent or empty one.
C6_SameResultLogOnly ==
    pc = "loaded" =>
        /\ (Undecodable(cache_file) \/ cache_file.state = "empty")
              => loaded = AbsentResult /\ loaded = NoSnapshot
        /\ Undecodable(cache_file) => "Cache loading failed" \in Range(log)
        /\ cache_file.state \in {"absent", "empty"}
              => "Cache loading failed" \notin Range(log)

\* load_cache returned for a non-empty file it could not decode: it printed
\* the message and returned the no-file result.
C6_Witness ==
    /\ pc = "loaded"
    /\ cache_file.state = "json"
    /\ Undecodable(cache_file)
    /\ loaded = NoSnapshot
    /\ "Cache loading failed" \in Range(log)

\* C22: a save leaves a complete snapshot: when save_cache returns, the
\* snapshot file holds the full encoding of the result being saved, or it
\* is the file as it was before the save; never an empty or cut-off file
\* the save itself produced.
C22_NoPartialSnapshot ==
    [][pc = "start" /\ pc' = "saved" =>
          \/ cache_file' = cache_file
          \/ \E order \in {"fwd", "rev"} :
                cache_file' = [state |-> "json",
                               doc |-> EncodeCache(functions, classes, file_info,
                                                   relationships, order)]]_vars

----------------------------------------------------------------------------
(* MetadataExtractor.process_file and the scan: scraper.py process_file    *)
(* and scan_repository                                                     *)

\* Candidate files of one scan.
MaxFiles == 2

FunctionDef(name, body) == [type |-> "FunctionDef", name |-> name, def |-> body, body |-> <<>>]
ClassDef(name, body) == [type |-> "ClassDef", name |-> name, body |-> body]

EmptyBody == [params |-> <<>>, line |-> 1, calls |-> <<>>, uses |-> <<>>]
CallingBody == [params |-> << [name |-> "x", type |-> "Any"] >>, line |-> 2,
                calls |-> <<"f", "m", "Foo">>, uses |-> <<"Foo">>]

\* What a candidate file can be: unreadable (open or read raises OSError),
\* not parseable (ast.parse raises SyntaxError), failing inside the
\* extractor with another exception (RecursionError), or a module: an
\* empty one, `def f(x)`, `class Foo: def m(self)`, and
\* `class Foo: def Foo(self); def m(x)`.
FileConditions ==
    << [kind |-> "OSError"],
       [kind |-> "SyntaxError"],
       [kind |-> "RecursionError"],
       [kind |-> "module", body |-> <<>>],
       [kind |-> "module", body |-> << FunctionDef("f", CallingBody) >>],
       [kind |-> "module", body |-> << ClassDef("Foo", << FunctionDef("m", EmptyBody) >>) >>],
       [kind |-> "module", body |-> << ClassDef("Foo", << FunctionDef("Foo", EmptyBody),
                                                          FunctionDef("m", CallingBody) >>) >>] >>

\* ast.walk: breadth first from the nodes in `queue`.
RECURSIVE AstWalk(_)
AstWalk(queue) ==
    IF queue = <<>> THEN <<>>
    ELSE <<Head(queue)>> \o AstWalk(Tail(queue) \o Head(queue).body)

\* [Op(x) for x in seq if x.type = type], with Op building the metadata of
\* a node found in file `path`.
RECURSIVE NodesOfType(_, _)
NodesOfType(seq, type) ==
    IF seq = <<>> THEN <<>>
    ELSE (IF Head(seq).type = type THEN <<Head(seq)>> ELSE <<>>) \o NodesOfType(Tail(seq), type)

\* metadata.py:94-128 for a FunctionDef node of file `path`.
ExtractFunctionMetadata(node, path) == FunctionMetadata(node.name, path, node.def)

\* metadata.py:130-142 for a ClassDef node of file `path`.
ExtractClassMetadata(node, path) ==
    LET ms == NodesOfType(node.body, "FunctionDef")
    IN  ClassMetadata(node.name, path,
                      [i \in 1..Len(ms) |-> ExtractFunctionMetadata(ms[i], path)])

\* metadata.py:155-163: the declarations of a parsed module of file `path`.
WalkModule(path, body) ==
    LET walk == AstWalk(body)
        fns == NodesOfType(walk, "FunctionDef")
        cls == NodesOfType(walk, "ClassDef")
    IN  [functions |-> [i \in 1..Len(fns) |-> ExtractFunctionMetadata(fns[i], path)],
         classes |-> [i \in 1..Len(cls) |-> ExtractClassMetadata(cls[i], path)]]

\* metadata.py:144-163: the (functions, classes) of a file, or the
\* exception that propagates.
MetadataProcessFile(path, cond) ==
    CASE cond.kind = "OSError" -> Raise("OSError")
      [] cond.kind = "SyntaxError" -> Ok([functions |-> <<>>, classes |-> <<>>])
      [] cond.kind = "RecursionError" -> Raise("RecursionError")
      [] OTHER -> Ok(WalkModule(path, cond.body))

\* scraper.py:41-53: the triple a task returns, and what it prints.
ScraperProcessFile(path, cond) ==
    LET r == MetadataProcessFile(path, cond)
    IN  IF r.exc = "none"
        THEN [exc |-> "none", functions |-> r.val.functions, classes |-> r.val.classes,
              info |-> FileRecord(path), out |-> <<>>]
        ELSE [exc |-> "none", functions |-> <<>>, classes |-> <<>>, info |-> EmptyDict,
              out |-> << "Error processing " \o path >>]

\* scraper.py:145-152: the results merged in the order of the file list.
RECURSIVE Combine(_, _, _)
Combine(acc, rs, i) ==
    IF i > Len(rs) THEN acc
    ELSE Combine([functions |-> acc.functions \o rs[i].functions,
                  classes |-> acc.classes \o rs[i].classes,
                  file_info |-> IF DOMAIN rs[i].info # {}
                                THEN DictSet(acc.file_info, rs[i].info.path, rs[i].info)
                                ELSE acc.file_info],
                 rs, i + 1)

\* Lists of k distinct paths.
DistinctPaths(k) ==
    { s \in [1..k -> Files] : \A i \in 1..k : \A j \in 1..k : s[i] = s[j] => i = j }

\* scraper.py:136-137: the candidate files get_all_files found, in the
\* order os.walk gave them, and what each is on disk.
InitScan ==
    /\ \E k \in 0..MaxFiles : files \in DistinctPaths(k)
    /\ \E c \in [Files -> 1..Len(FileConditions)] :
          disk = [p \in Range(files) |-> FileConditions[c[p]]]
    /\ results = [i \in 1..Len(files) |-> [done |-> FALSE]]
    /\ extractor = Unused
    /\ functions = <<>>
    /\ classes = <<>>
    /\ file_info = EmptyDict
    /\ relationships = EmptyDict
    /\ class_name_map = Unused
    /\ cache_file = Unused
    /\ loaded = Unused
    /\ log = <<>>
    /\ nodes = Unused
    /\ filtered = Unused
    /\ call = Unused
    /\ args = Unused
    /\ scanned = Unused
    /\ save_outcome = Unused
    /\ pc = "dispatch"
    /\ exc = "none"

\* scraper.py:140-142: one task of the worker pool runs process_file on its
\* file; tasks finish in any order, and Parallel re-raises what a task
\* raises.
ProcessFile(i) ==
    /\ pc = "dispatch"
    /\ ~results[i].done
    /\ LET r == ScraperProcessFile(files[i], disk[files[i]]) IN
         /\ log' = log \o r.out
         /\ IF r.exc = "none"
            THEN /\ results' = [results EXCEPT ![i] =
                                  [done |-> TRUE, functions |-> r.functions,
                                   classes |-> r.classes, info |-> r.info]]
                 /\ UNCHANGED <<pc, exc>>
            ELSE /\ pc' = "raised"
                 /\ exc' = r.exc
                 /\ UNCHANGED results
    /\ UNCHANGED <<resolverVars, filterVars, mainVars, file_info, cache_file, loaded, files, disk,
                   extractor>>

\* The merge starting while tasks are still running, over the results that
\* have arrived.
CombineResultsEarly ==
    /\ pc = "dispatch"
    /\ LET arrived == [i \in 1..Len(files) |->
                         IF results[i].done THEN results[i]
                         ELSE [done |-> FALSE, functions |-> <<>>, classes |-> <<>>,
                               info |-> EmptyDict]]
           all == Combine([functions |-> <<>>, classes |-> <<>>, file_info |-> EmptyDict],
                          arrived, 1)
       IN  /\ functions' = all.functions
           /\ classes' = all.classes
           /\ file_info' = all.file_info
    /\ pc' = "resolve"
    /\ UNCHANGED <<class_name_map, relationships, exc, cache_file, loaded, log,
                   files, disk, results, extractor, filterVars, mainVars>>

\* scraper.py:144-152, once Parallel has returned every result.
CombineResults ==
    /\ pc = "dispatch"
    /\ \A i \in 1..Len(files) : results[i].done
    /\ LET all == Combine([functions |-> <<>>, classes |-> <<>>, file_info |-> EmptyDict],
                          results, 1)
       IN  /\ functions' = all.functions
           /\ classes' = all.classes
           /\ file_info' = all.file_info
    /\ pc' = "resolve"
    /\ UNCHANGED <<class_name_map, relationships, exc, cache_file, loaded, log,
                   files, disk, results, extractor, filterVars, mainVars>>

\* scraper.py:154-157
ResolveAndReturn ==
    /\ pc = "resolve"
    /\ LET r == ExtractRelationships(functions, classes) IN
         IF r.exc = "none"
         THEN /\ relationships' = r.val
              /\ pc' = "returned"
              /\ exc' = exc
         ELSE /\ relationships' = relationships
              /\ pc' = "raised"
              /\ exc' = r.exc
    /\ UNCHANGED <<functions, classes, class_name_map, file_info, cache_file, loaded, log,
                   files, disk, results, extractor, filterVars, mainVars>>

NextScan ==
    \/ \E i \in 1..Len(files) : ProcessFile(i)
    \/ CombineResults
    \/ ResolveAndReturn

SpecScan == InitScan /\ [][NextScan]_vars

----------------------------------------------------------------------------
(* Properties of the scan                                                  *)

\* The declarations the extractor yields for a readable, parseable file.
Extracted(path) == MetadataProcessFile(path, disk[path]).val

\* The scan has ended: scan_repository returned or raised.
ScanEnded == pc \in {"returned", "raised"}

\* The declarations and classes of the readable, parseable file p are in
\* the result of the scan.
Contributed(p) ==
    /\ Range(Extracted(p).functions) \subseteq Range(functions)
    /\ Range(Extracted(p).classes) \subseteq Range(classes)

\* C7: a scan of files of which one fails to parse returns; the file that
\* failed to parse has no declaration and no class in the result, its
\* FileRecord (path, language tag, folder) is in file_info, and every
\* declaration and class of every other file is in the result.
C7_ParseFailure ==
    \A p \in Range(files) :
        (ScanEnded /\ disk[p].kind = "SyntaxError") =>
            /\ pc = "returned"
            /\ \A d \in Range(functions) \cup Range(classes) : d.file_path # p
            /\ p \in DOMAIN file_info
            /\ file_info[p] = [path |-> p, type |-> Splitext(p), folder |-> Dirname(p)]
            /\ \A q \in Range(files) : disk[q].kind = "module" => Contributed(q)

\* Processing the file p fails with an I/O error or an internal exception.
FileFailed(p) == disk[p].kind \in {"OSError", "RecursionError"}

\* C8: a file whose processing fails with an I/O error or an internal
\* exception yields the empty result ([], [], {}) and a printed message,
\* and a scan with such a file returns, with the declarations, classes
\* and FileRecord of every other file and nothing of the failed one.
C8_FailureIsolation ==
    \A i \in 1..Len(files) :
        FileFailed(files[i]) =>
            /\ results[i].done =>
                  /\ results[i].functions = <<>>
                  /\ results[i].classes = <<>>
                  /\ DOMAIN results[i].info = {}
                  /\ ("Error processing " \o files[i]) \in Range(log)
            /\ ScanEnded =>
                  /\ pc = "returned"
                  /\ \A d \in Range(functions) \cup Range(classes) :
                        d.file_path # files[i]
                  /\ files[i] \notin DOMAIN file_info
                  /\ \A q \in Range(files) :
                        disk[q].kind = "module" =>
                            Contributed(q) /\ q \in DOMAIN file_info

\* C16: extract_relationships starts only after every dispatched task
\* has completed: whenever the scan is resolving or has ended, every
\* file's task is done and the merged collections hold the declarations
\* and classes of every file that could be read and parsed.
C16_MapThenReduce ==
    pc \in {"resolve", "returned", "raised"} =>
        /\ \A i \in 1..Len(files) : results[i].done
        /\ \A p \in Range(files) : disk[p].kind = "module" => Contributed(p)

\* The resolver is about to start on the merge of two files, one of them
\* with a class.
C16_Witness ==
    /\ pc = "resolve"
    /\ Len(files) >= 2
    /\ classes # <<>>
    /\ \A i \in 1..Len(files) : results[i].done

\* The methods of the classes in the sequence cs.
MethodsOf(cs) == UNION { Range(c.methods) : c \in Range(cs) }

\* C13: in the (functions, classes) pair the extractor returns for a file,
\* no declaration in the methods list of a returned class is also in the
\* returned list of functions.
C13_MethodsExclusive ==
    \A i \in 1..Len(files) :
        results[i].done =>
            MethodsOf(results[i].classes) \cap Range(results[i].functions) = {}

----------------------------------------------------------------------------
(* The worker pool of scan_repository: scraper.py:139-142 with the fields  *)
(* of the MetadataExtractor, metadata.py:33-35 and 144-147                 *)

\* The number of worker processes of the pool (scraper.py:12, workers).
MaxWorkers == 2

\* The extractor instance the tasks of worker w go through. Parallel is
\* called with its default backend, which runs the workers as processes:
\* the bound method self.process_file reaches a worker as a copy of the
\* scraper and of its extractor, so each worker has an instance of its own.
\* With one worker the tasks run in the caller on the scraper's instance.
ExtractorShared(w) == 0
ExtractorOf(w) == w

\* scraper.py:136-139: the candidate files and what each is on disk (a
\* file that cannot be read, or one of the three modules with
\* declarations), no task started, and every instance as __init__ left it.
InitWorkers ==
    /\ \E k \in 0..MaxFiles : files \in DistinctPaths(k)
    /\ \E c \in [Files -> {1, 5, 6, 7}] :
          disk = [p \in Range(files) |-> FileConditions[c[p]]]
    /\ results = [i \in 1..Len(files) |-> [done |-> FALSE]]
    /\ extractor = [w \in 0..MaxWorkers |-> [current_file |-> "", current_folder |-> ""]]
    /\ functions = <<>>
    /\ classes = <<>>
    /\ file_info = EmptyDict
    /\ relationships = EmptyDict
    /\ class_name_map = Unused
    /\ cache_file = Unused
    /\ loaded = Unused
    /\ log = <<>>
    /\ nodes = Unused
    /\ filtered = Unused
    /\ call = Unused
    /\ args = Unused
    /\ scanned = Unused
    /\ save_outcome = Unused
    /\ pc = "dispatch"
    /\ exc = "none"

\* metadata.py:146-147: worker w, running no task, takes the queued task i
\* and stores its file and folder in the fields of its instance.
StartTask(i, w) ==
    /\ pc = "dispatch"
    /\ DOMAIN results[i] = {"done"}
    /\ ~results[i].done
    /\ \A j \in 1..Len(files) :
          "worker" \in DOMAIN results[j] => results[j].worker # w
    /\ extractor' = [extractor EXCEPT ![ExtractorOf(w)] =
                       [current_file |-> files[i], current_folder |-> Dirname(files[i])]]
    /\ results' = [results EXCEPT ![i] = [done |-> FALSE, worker |-> w]]
    /\ UNCHANGED <<resolverVars, codecVars, filterVars, mainVars, files, disk, pc, exc>>

\* metadata.py:149-163 and scraper.py:45-53: the task reads the file named
\* by its parameter, labels what it extracts with the fields of the
\* instance, and hands its triple to Parallel.
FinishTask(i) ==
    /\ pc = "dispatch"
    /\ ~results[i].done
    /\ "worker" \in DOMAIN results[i]
    /\ LET self == extractor[ExtractorOf(results[i].worker)]
           Labelled(d) == [d EXCEPT !.folder_path = self.current_folder]
           LabelledClass(c) ==
               [Labelled(c) EXCEPT !.methods =
                   [k \in 1..Len(c.methods) |-> Labelled(c.methods[k])]]
       IN  \E r \in {MetadataProcessFile(self.current_file, disk[files[i]])} :
             IF r.exc = "none"
             THEN /\ results' = [results EXCEPT ![i] =
                        [done |-> TRUE,
                         functions |-> [k \in 1..Len(r.val.functions) |->
                                          Labelled(r.val.functions[k])],
                         classes |-> [k \in 1..Len(r.val.classes) |->
                                        LabelledClass(r.val.classes[k])],
                         info |-> FileRecord(files[i])]]
                  /\ log' = log
             ELSE /\ results' = [results EXCEPT ![i] =
                        [done |-> TRUE,
                         functions |-> <<>>, classes |-> <<>>, info |-> EmptyDict]]
                  /\ log' = log \o << "Error processing " \o files[i] >>
    /\ UNCHANGED <<resolverVars, filterVars, mainVars, file_info, cache_file, loaded,
                   files, disk, extractor, pc, exc>>

NextWorkers ==
    \/ \E i \in 1..Len(files) : \E w \in 1..MaxWorkers : StartTask(i, w)
    \/ \E i \in 1..Len(files) : FinishTask(i)
    \/ CombineResults
    \/ ResolveAndReturn

SpecWorkers == InitWorkers /\ [][NextWorkers]_vars

\* The declarations of a task's result: functions, classes and methods.
DeclarationsOf(result) ==
    Range(result.functions) \cup Range(result.classes)
        \cup UNION { Range(c.methods) : c \in Range(result.classes) }

\* C21: however the tasks of the workers interleave, every declaration a
\* task hands back, and so every declaration scan_repository returns, has
\* the path of the task's file as file_path and that file's directory as
\* folder_path.
C21_TaskIsolation ==
    \A i \in 1..Len(files) :
        results[i].done =>
            \A d \in DeclarationsOf(results[i]) :
                /\ d.file_path = files[i]
                /\ d.folder_path = Dirname(files[i])

\* A task has handed back declarations while another worker, whose
\* instance holds another file, is still running its task.
C21_Witness ==
    \E i \in 1..Len(files) : \E j \in 1..Len(files) :
        /\ results[i].done
        /\ DeclarationsOf(results[i]) # {}
        /\ ~results[j].done
        /\ "worker" \in DOMAIN results[j]
        /\ extractor[ExtractorOf(results[j].worker)].current_file = files[j]
        /\ \E w \in 1..MaxWorkers :
              /\ w # results[j].worker
              /\ extractor[ExtractorOf(w)].current_file = files[i]

----------------------------------------------------------------------------
(* filters.py: GraphFilter                                                 *)

\* Length of a seed list (selected_nodes).
MaxSeeds == 2

\* filters.py:8
node_types == {"folder", "file", "function"}

\* path.split('/')[-1]
LastComponent(path) == SubSeq(path, LastIndexOf(path, "/") + 1, Len(path))

\* The restriction of a node table to the keys in `keep`.
Restrict(table, keep) == [k \in (DOMAIN table) \cap keep |-> table[k]]

\* v.get('type') == kind
HasType(v, kind) == "type" \in DOMAIN v /\ v.type = kind

\* filters.py:19-29
FilterByType(table, node_type) ==
    IF node_type \notin node_types THEN table
    ELSE Restrict(table,
                  { k \in DOMAIN table :
                      \/ node_type = "folder" /\ HasType(table[k], "folder")
                      \/ node_type = "file" /\ HasType(table[k], "file")
                      \/ node_type = "function" /\ HasType(table[k], "function") })

\* The loop of filter_by_relationships following uses and used_by as well.
RECURSIVE KeepNodesWithUses(_, _, _, _, _)
KeepNodesWithUses(keep, rel, selected, direction, i) ==
    IF i > Len(selected) THEN keep
    ELSE LET node_id == selected[i]
             out == IF node_id \in DOMAIN rel /\ direction \in {"both", "out"}
                    THEN rel[node_id].calls \cup rel[node_id].uses ELSE {}
             in == IF node_id \in DOMAIN rel /\ direction \in {"both", "in"}
                   THEN rel[node_id].called_by \cup rel[node_id].used_by ELSE {}
         IN  KeepNodesWithUses(keep \cup out \cup in, rel, selected, direction, i + 1)

\* filters.py:50-55: the loop over selected_nodes that grows keep_nodes.
RECURSIVE KeepNodes(_, _, _, _, _)
KeepNodes(keep, rel, selected, direction, i) ==
    IF i > Len(selected) THEN keep
    ELSE LET node_id == selected[i]
             out == IF node_id \in DOMAIN rel /\ direction \in {"both", "out"}
                    THEN rel[node_id].calls ELSE {}
             in == IF node_id \in DOMAIN rel /\ direction \in {"both", "in"}
                   THEN rel[node_id].called_by ELSE {}
         IN  KeepNodes(keep \cup out \cup in, rel, selected, direction, i + 1)

\* filters.py:42-57
FilterByRelationships(table, rel, selected, direction) ==
    IF selected = <<>> THEN table
    ELSE Restrict(table, KeepNodes(Range(selected), rel, selected, direction, 1))

\* The lower-case letter of every upper-case letter.
LowerOf ==
    "A" :> "a" @@ "B" :> "b" @@ "C" :> "c" @@ "D" :> "d" @@ "E" :> "e" @@ "F" :> "f" @@
    "G" :> "g" @@ "H" :> "h" @@ "I" :> "i" @@ "J" :> "j" @@ "K" :> "k" @@ "L" :> "l" @@
    "M" :> "m" @@ "N" :> "n" @@ "O" :> "o" @@ "P" :> "p" @@ "Q" :> "q" @@ "R" :> "r" @@
    "S" :> "s" @@ "T" :> "t" @@ "U" :> "u" @@ "V" :> "v" @@ "W" :> "w" @@ "X" :> "x" @@
    "Y" :> "y" @@ "Z" :> "z"

\* str.lower() of one character.
LowerChar(c) == IF c \in DOMAIN LowerOf THEN LowerOf[c] ELSE c

\* str.lower()
RECURSIVE Lower(_)
Lower(str) ==
    IF str = "" THEN ""
    ELSE LowerChar(SubSeq(str, 1, 1)) \o Lower(SubSeq(str, 2, Len(str)))

\* pattern in str
Contains(str, pattern) ==
    \E i \in 1..(Len(str) - Len(pattern) + 1) :
        SubSeq(str, i, i + Len(pattern) - 1) = pattern

\* v.get('label', '')
LabelOf(v) == IF "label" \in DOMAIN v THEN v.label ELSE ""

\* filters.py:31-40
FilterByName(table, name_pattern) ==
    IF name_pattern = "" THEN table
    ELSE LET pattern == Lower(name_pattern)
         IN  Restrict(table,
                      { k \in DOMAIN table :
                          \/ Contains(Lower(k), pattern)
                          \/ Contains(Lower(LabelOf(table[k])), pattern) })

\* An argument that is given, as opposed to None.
Some(v) == [some |-> v]

\* Python truth of a str argument that may be None.
TruthyStr(arg) == arg # None /\ arg.some # ""

\* Python truth of a list argument that may be None.
TruthyList(arg) == arg # None /\ arg.some # <<>>

\* filter_by_type with an argument that may be None: None is not in
\* node_types (filters.py:21-22).
FilterByTypeOpt(table, node_type) ==
    IF node_type = None THEN table ELSE FilterByType(table, node_type.some)

\* filter_by_name with an argument that may be None: not None holds
\* (filters.py:33-34).
FilterByNameOpt(table, name_pattern) ==
    IF name_pattern = None THEN table ELSE FilterByName(table, name_pattern.some)

\* filter_by_relationships with seeds that may be None: not None holds
\* (filters.py:45-46).
FilterByRelationshipsOpt(table, rel, selected, direction) ==
    IF selected = None THEN table
    ELSE FilterByRelationships(table, rel, selected.some, direction)

\* apply_filters with every stage filtering the table it was given instead
\* of the previous stage's output.
ApplyFiltersOnInput(table, rel, node_type, name_pattern, selected, direction) ==
    LET by_type == IF TruthyStr(node_type) THEN FilterByType(table, node_type.some) ELSE table
        by_name == IF TruthyStr(name_pattern) THEN FilterByName(table, name_pattern.some)
                   ELSE by_type
    IN  IF TruthyList(selected)
        THEN FilterByRelationships(table, rel, selected.some, direction)
        ELSE by_name

\* filters.py:68-87
ApplyFilters(table, rel, node_type, name_pattern, selected, direction) ==
    LET copy == table
        by_type == IF TruthyStr(node_type) THEN FilterByType(copy, node_type.some) ELSE copy
        by_name == IF TruthyStr(name_pattern) THEN FilterByName(by_type, name_pattern.some)
                   ELSE by_type
    IN  IF TruthyList(selected)
        THEN FilterByRelationships(by_name, rel, selected.some, direction)
        ELSE by_name

\* The node table of a scan result: the data of the nodes
\* _create_nodes_and_edges makes (visualizer.py:44-128), by node id.
NodeTable(r) ==
    LET folders == { r.file_info[p].folder : p \in DOMAIN r.file_info }
        folder_ids == { "folder:" \o d : d \in folders }
        file_ids == { "file:" \o p : p \in DOMAIN r.file_info }
        class_ids == { NodeId(c) : c \in Range(r.classes) }
        func_ids == { NodeId(f) : f \in Range(r.functions) }
    IN  [k \in folder_ids \cup file_ids \cup class_ids \cup func_ids |->
           IF k \in func_ids
           THEN [label |-> (CHOOSE f \in Range(r.functions) : NodeId(f) = k).name,
                 type |-> "function"]
           ELSE IF k \in class_ids
           THEN [label |-> (CHOOSE c \in Range(r.classes) : NodeId(c) = k).name,
                 type |-> "class"]
           ELSE IF k \in file_ids
           THEN LET p == CHOOSE p \in DOMAIN r.file_info : "file:" \o p = k
                IN  [label |-> LastComponent(p), type |-> "file",
                     extension |-> r.file_info[p].type]
           ELSE LET d == CHOOSE d \in folders : "folder:" \o d = k
                IN  [label |-> LastComponent(d), type |-> "folder"]]

\* The result of scanning the files `paths` holding the modules `modules`.
ScanOf(paths, modules) ==
    LET rs == [i \in 1..Len(paths) |->
                 ScraperProcessFile(paths[i], [kind |-> "module", body |-> modules[i]])]
        all == Combine([functions |-> <<>>, classes |-> <<>>, file_info |-> EmptyDict], rs, 1)
    IN  [functions |-> all.functions, classes |-> all.classes, file_info |-> all.file_info,
         relationships |-> ExtractRelationships(all.functions, all.classes).val]

\* The scan results the filters are applied to: a function calling itself,
\* a method and a class; a method calling itself, a function and its
\* class; a function calling a function of its file and using a class of
\* another file; nothing.
FilterScans ==
    << ScanOf(<<"pkg/a.py">>,
              << << FunctionDef("f", CallingBody),
                    ClassDef("Foo", << FunctionDef("m", EmptyBody) >>) >> >>),
       ScanOf(<<"pkg/a.py">>,
              << << FunctionDef("f", EmptyBody),
                    ClassDef("Foo", << FunctionDef("m", CallingBody) >>) >> >>),
       ScanOf(<<"pkg/a.py", "lib/c.py">>,
              << << FunctionDef("f", CallingBody), FunctionDef("m", EmptyBody) >>,
                 << FunctionDef("f", EmptyBody), ClassDef("Foo", <<>>) >> >>),
       ScanOf(<<>>, <<>>) >>

\* A key that is neither in a node table nor in a graph.
UnknownKey == "pkg/b.py:g"

InitFilter ==
    /\ \E n \in 1..Len(FilterScans) :
          LET r == FilterScans[n] IN
          /\ functions = r.functions
          /\ classes = r.classes
          /\ file_info = r.file_info
          /\ relationships = r.relationships
          /\ \E keep \in SUBSET (DOMAIN NodeTable(r)) : nodes = Restrict(NodeTable(r), keep)
    /\ filtered = EmptyDict
    /\ call = [op |-> "none"]
    /\ args = Unused
    /\ scanned = Unused
    /\ save_outcome = Unused
    /\ class_name_map = Unused
    /\ cache_file = Unused
    /\ loaded = Unused
    /\ log = Unused
    /\ files = Unused
    /\ disk = Unused
    /\ results = Unused
    /\ extractor = Unused
    /\ pc = "idle"
    /\ exc = "none"

\* A call of filter_by_type (filters.py:19-29).
CallFilterByType ==
    /\ pc = "idle"
    /\ pc' = "called"
    /\ \E node_type \in {"folder", "file", "function", "class", "method", "all"} :
          /\ filtered' = FilterByType(nodes, node_type)
          /\ call' = [op |-> "filter_by_type", node_type |-> node_type]
    /\ UNCHANGED <<resolverVars, codecVars, scanVars, mainVars, exc, nodes>>

\* A call of filter_by_relationships (filters.py:42-57).
CallFilterByRelationships ==
    /\ pc = "idle"
    /\ pc' = "called"
    /\ \E selected \in SeqsUpTo(DOMAIN NodeTable(
                                   [functions |-> functions, classes |-> classes,
                                    file_info |-> file_info]) \cup {UnknownKey}, MaxSeeds) :
       \E direction \in {"both", "in", "out", "up"} :
          /\ filtered' = FilterByRelationships(nodes, relationships, selected, direction)
          /\ call' = [op |-> "filter_by_relationships", selected_nodes |-> selected,
                      direction |-> direction]
    /\ UNCHANGED <<resolverVars, codecVars, scanVars, mainVars, exc, nodes>>

\* The values given for node_type.
TypeArguments == << None, Some(""), Some("file"), Some("function"), Some("class") >>

\* The values given for name_pattern.
PatternArguments == << None, Some(""), Some("foo"), Some("PKG"), Some("m"), Some("zzz") >>

\* The values given for selected_nodes: None, the empty list and the
\* lists of one key of the graph or one unknown key.
SeedArguments(rel) ==
    {None} \cup { Some(seeds) : seeds \in SeqsUpTo(DOMAIN rel \cup {UnknownKey}, 1) }

\* A call of apply_filters (filters.py:68-87).
CallApplyFilters ==
    /\ pc = "idle"
    /\ pc' = "called"
    /\ \E t \in 1..Len(TypeArguments), n \in 1..Len(PatternArguments) :
       \E selected \in SeedArguments(relationships) :
       \E direction \in {"both", "in", "out"} :
          /\ filtered' = ApplyFilters(nodes, relationships, TypeArguments[t],
                                      PatternArguments[n], selected, direction)
          /\ call' = [op |-> "apply_filters", node_type |-> TypeArguments[t],
                      name_pattern |-> PatternArguments[n], selected_nodes |-> selected,
                      direction |-> direction]
    /\ UNCHANGED <<resolverVars, codecVars, scanVars, mainVars, exc, nodes>>

NextFilter ==
    \/ CallFilterByType
    \/ CallFilterByRelationships
    \/ CallApplyFilters

SpecFilter == InitFilter /\ [][NextFilter]_vars

----------------------------------------------------------------------------
(* Properties of the filters                                               *)

\* The kinds of the nodes of a table.
KindsOf(table) == { table[k].type : k \in DOMAIN table }

\* C9: for a table holding folder, file, function and class nodes,
\* filter_by_type(nodes, 'class') returns exactly the nodes of the table
\* whose kind is class, each with its attributes unchanged.
C9_ClassFilter ==
    (/\ call.op = "filter_by_type"
     /\ call.node_type = "class"
     /\ KindsOf(nodes) = {"folder", "file", "function", "class"}) =>
        /\ DOMAIN filtered = { k \in DOMAIN nodes : nodes[k].type = "class" }
        /\ \A k \in DOMAIN filtered : filtered[k] = nodes[k]

\* The seeds of the last call that are nodes of the graph.
GraphSeeds == Range(call.selected_nodes) \cap DOMAIN relationships

\* C10: filter_by_relationships with a non-empty seed list returns exactly
\* the nodes of the input table (attributes unchanged) whose key is a seed,
\* or is called by a seed (direction out or both), or calls a seed
\* (direction in or both); with an empty seed list it returns the table.
C10_OneHopCalls ==
    call.op = "filter_by_relationships" =>
        IF call.selected_nodes = <<>>
        THEN filtered = nodes
        ELSE /\ DOMAIN filtered =
                  { k \in DOMAIN nodes :
                      \/ k \in Range(call.selected_nodes)
                      \/ /\ call.direction \in {"out", "both"}
                         /\ \E s \in GraphSeeds : k \in relationships[s].calls
                      \/ /\ call.direction \in {"in", "both"}
                         /\ \E s \in GraphSeeds : k \in relationships[s].called_by }
             /\ \A k \in DOMAIN filtered : filtered[k] = nodes[k]

\* A call in direction both whose seed uses a class of the table that it
\* does not call, and calls a node of the table that is no seed: the class
\* is dropped and the called node kept. One seed is no key of the table.
C10_Witness ==
    /\ call.op = "filter_by_relationships"
    /\ call.direction = "both"
    /\ \E s \in GraphSeeds :
          /\ \E u \in relationships[s].uses \cap DOMAIN nodes : u \notin DOMAIN filtered
          /\ \E c \in relationships[s].calls \cap DOMAIN nodes :
                c \notin Range(call.selected_nodes) /\ c \in DOMAIN filtered
    /\ \E s \in Range(call.selected_nodes) : s \notin DOMAIN nodes

\* C11: the result of apply_filters is that of filter_by_relationships
\* applied to the result of filter_by_name applied to the result of
\* filter_by_type, an argument of None leaving its stage's table as it is.
C11_Composition ==
    call.op = "apply_filters" =>
        filtered = FilterByRelationshipsOpt(
                       FilterByNameOpt(FilterByTypeOpt(nodes, call.node_type),
                                       call.name_pattern),
                       relationships, call.selected_nodes, call.direction)

\* A call of apply_filters in which each of the three stages dropped a
\* node the stage before it had kept.
C11_Witness ==
    /\ call.op = "apply_filters"
    /\ LET by_type == FilterByTypeOpt(nodes, call.node_type)
           by_name == FilterByNameOpt(by_type, call.name_pattern)
       IN  /\ DOMAIN by_type # DOMAIN nodes
           /\ DOMAIN by_name # DOMAIN by_type
           /\ DOMAIN filtered # DOMAIN by_name
           /\ DOMAIN filtered # {}

----------------------------------------------------------------------------
(* main.py: main                                                           *)

\* scraper.py:140-142: the result Parallel holds for a task that returned r.
TaskResult(r) ==
    [done |-> TRUE, functions |-> r.functions, classes |-> r.classes, info |-> r.info]

\* scraper.py:157: the four collections scan_repository returns, unless
\* extract_relationships raised.
ResolveOutcome(all, rel) ==
    IF rel.exc = "none"
    THEN Ok([functions |-> all.functions, classes |-> all.classes,
             file_info |-> all.file_info, relationships |-> rel.val])
    ELSE Raise(rel.exc)

\* scraper.py:154-157
ResolveMerged(all) ==
    ResolveOutcome(all, ExtractRelationships(all.functions, all.classes))

\* scraper.py:134-157: what scan_repository returns, or the exception it
\* raises, for the files `paths` in the conditions `conds`.
ScanRepository(paths, conds) ==
    ResolveMerged(
        Combine([functions |-> <<>>, classes |-> <<>>, file_info |-> EmptyDict],
                [i \in 1..Len(paths) |->
                   TaskResult(ScraperProcessFile(paths[i], conds[paths[i]]))],
                1))

\* The repositories main is run on: an empty one; one file with a function
\* and no class; one file with a function and a class; an unreadable file
\* next to a file with a class; a file whose class makes the resolver raise.
MainRepos ==
    << [files |-> <<>>, disk |-> EmptyDict],
       [files |-> <<"pkg/a.py">>, disk |-> [p \in {"pkg/a.py"} |-> FileConditions[5]]],
       [files |-> <<"pkg/a.py">>,
        disk |-> [p \in {"pkg/a.py"} |->
                    [kind |-> "module",
                     body |-> << FunctionDef("f", CallingBody),
                                 ClassDef("Foo", << FunctionDef("m", EmptyBody) >>) >>]]],
       [files |-> <<"pkg/a.py", "lib/c.py">>,
        disk |-> [p \in {"pkg/a.py", "lib/c.py"} |->
                    IF p = "pkg/a.py" THEN FileConditions[1] ELSE FileConditions[6]]],
       [files |-> <<"lib/c.py">>, disk |-> [p \in {"lib/c.py"} |-> FileConditions[7]]] >>

\* The snapshot save_cache writes for the outcome r of a scan that
\* returned; the snapshot of an empty scan otherwise.
SnapshotOf(r) ==
    IF r.exc = "none"
    THEN EncodeCache(r.val.functions, r.val.classes, r.val.file_info,
                     r.val.relationships, "fwd")
    ELSE EncodeCache(<<>>, <<>>, EmptyDict, EmptyDict, "fwd")

\* The snapshot an earlier run over the repository `repo` saved.
EarlierSnapshot(repo) == SnapshotOf(ScanRepository(repo.files, repo.disk))

\* main.py:190: all((functions, classes, file_info, relationships)) of
\* what main holds after the attempt to load.
AllLoaded(l) ==
    /\ l.ret = "tuple"
    /\ l.functions # <<>>
    /\ l.classes # <<>>
    /\ DOMAIN l.file_info # {}
    /\ DOMAIN l.relationships # {}

InitMain ==
    /\ \E n \in 1..Len(MainRepos) :
          /\ files = MainRepos[n].files
          /\ disk = MainRepos[n].disk
    /\ \E m \in 1..Len(MainRepos) :
       \E doc \in {EarlierSnapshot(MainRepos[m])} :
       \E i \in 1..Len(PriorFiles(doc)) : cache_file = PriorFiles(doc)[i]
    /\ args \in [cache : BOOLEAN]
    /\ scanned = FALSE
    /\ save_outcome = "none"
    /\ functions = None
    /\ classes = None
    /\ file_info = None
    /\ relationships = None
    /\ loaded = [ret |-> "pending"]
    /\ log = <<>>
    /\ class_name_map = Unused
    /\ results = Unused
    /\ extractor = Unused
    /\ nodes = Unused
    /\ filtered = Unused
    /\ call = Unused
    /\ pc = "start"
    /\ exc = "none"

\* main.py:183-187
MainLoadCache ==
    /\ pc = "start"
    /\ IF args.cache
       THEN \E r \in {LoadCacheOf(cache_file)} :
              /\ log' = log \o <<"Attempting to load from cache...">> \o r.out
              /\ IF r.exc = "none"
                 THEN /\ loaded' = r.val
                      /\ functions' = r.val.functions
                      /\ classes' = r.val.classes
                      /\ file_info' = r.val.file_info
                      /\ relationships' = r.val.relationships
                      /\ pc' = "loaded"
                      /\ exc' = exc
                 ELSE /\ pc' = "raised"
                      /\ exc' = r.exc
                      /\ UNCHANGED <<loaded, functions, classes, file_info, relationships>>
       ELSE /\ loaded' = NoSnapshot
            /\ pc' = "loaded"
            /\ UNCHANGED <<functions, classes, file_info, relationships, log, exc>>
    /\ UNCHANGED <<class_name_map, cache_file, scanVars, filterVars, mainVars>>

\* main.py:190-193
MainScan ==
    /\ pc = "loaded"
    /\ ~AllLoaded(loaded)
    /\ scanned' = TRUE
    /\ log' = log \o <<"Analyzing repository...">>
    /\ \E r \in {ScanRepository(files, disk)} :
         IF r.exc = "none"
         THEN /\ functions' = r.val.functions
              /\ classes' = r.val.classes
              /\ file_info' = r.val.file_info
              /\ relationships' = r.val.relationships
              /\ pc' = IF args.cache THEN "save" ELSE "visualize"
              /\ exc' = exc
         ELSE /\ pc' = "raised"
              /\ exc' = r.exc
              /\ UNCHANGED <<functions, classes, file_info, relationships>>
    /\ UNCHANGED <<class_name_map, cache_file, loaded, scanVars, filterVars, args,
                   save_outcome>>

\* main.py:195-197
MainSaveCache ==
    /\ pc = "save"
    /\ \E outcome \in SaveOutcomes : \E order \in {"fwd", "rev"} :
          \E r \in {SaveCacheOf(cache_file, functions, classes, file_info, relationships,
                                outcome, order)} :
              /\ save_outcome' = outcome
              /\ cache_file' = r.file
              /\ log' = log \o <<"Saving results to cache...">> \o r.out
              /\ pc' = IF r.exc = "none" THEN "visualize" ELSE "raised"
              /\ exc' = r.exc
    /\ UNCHANGED <<resolverVars, loaded, file_info, scanVars, filterVars, args, scanned>>

\* main.py:198-199
MainUseCache ==
    /\ pc = "loaded"
    /\ AllLoaded(loaded)
    /\ log' = log \o <<"Successfully loaded from cache">>
    /\ pc' = "visualize"
    /\ UNCHANGED <<resolverVars, file_info, cache_file, loaded, exc, scanVars, filterVars,
                   mainVars>>

NextMain ==
    \/ MainLoadCache
    \/ MainScan
    \/ MainSaveCache
    \/ MainUseCache

SpecMain == InitMain /\ [][NextMain]_vars

----------------------------------------------------------------------------
(* Properties of main                                                      *)

\* main is past its decision between the snapshot and a fresh scan.
Decided == pc \in {"save", "visualize"} \/ (pc = "raised" /\ loaded.ret # "pending")

\* C12: main invokes scan_repository exactly when caching is disabled or
\* load_cache decoded no snapshot; when caching is enabled and load_cache
\* decoded a snapshot, also one with an empty collection, main goes on
\* with the decoded result and does not scan.
C12_ScanIffNoSnapshot ==
    Decided =>
        /\ scanned <=> (~args.cache \/ loaded.ret = "none")
        /\ (args.cache /\ loaded.ret = "tuple" /\ pc = "visualize") =>
              /\ functions = loaded.functions
              /\ classes = loaded.classes
              /\ file_info = loaded.file_info
              /\ relationships = loaded.relationships

\* C15: when the write of save_cache fails, the failure is printed,
\* nothing is raised, and main reaches the visualizer with exactly the
\* result scan_repository returned.
C15_BestEffortSave ==
    save_outcome \notin {"none", "ok"} =>
        /\ pc = "visualize"
        /\ exc = "none"
        /\ "Failed to save cache" \in Range(log)
        /\ \E r \in {ScanRepository(files, disk).val} :
             /\ functions = r.functions
             /\ classes = r.classes
             /\ file_info = r.file_info
             /\ relationships = r.relationships

\* A write that failed part-way after a scan that found declarations.
C15_Witness ==
    /\ save_outcome = "write_fails_midway"
    /\ pc = "visualize"
    /\ functions # <<>>
    /\ cache_file.state = "text"

====
